---- MODULE Spec2Model ----
(***************************************************************************)
(* jsFader (Rust edition): the volume/pan fader of src/src/lib.rs.         *)
(*                                                                         *)
(* The model follows lib.rs: FaderEffect::process_internal as the audio    *)
(* thread's call (lock, parameter read, per-sample loop, return), the      *)
(* PluginParameters methods as the control thread's calls, the RwLock      *)
(* around the parameter storage, and the f32 arithmetic that decides the   *)
(* ramp, the quantisation of the selectors and the table indices.          *)
(*                                                                         *)
(* f32 values are records [k, m, e]: k = "fin" is the number m * 2^e with  *)
(* m = 0, e = 0 or 2^23 <= |m| < 2^24 (24 significant bits, as in IEEE     *)
(* binary32); k = "inf" is the infinity of sign m; k = "nan" is NaN.       *)
(* Every operation rounds to nearest, ties to even.  -0.0 is identified    *)
(* with 0.0 (the code only compares, clamps and truncates zeros), and the  *)
(* exponent is unbounded: no value of the model comes near 2^128 or        *)
(* 2^-126.                                                                 *)
(*                                                                         *)
(* The contents of VOLUME_LUT and PAN_LUT come from powf and sin and stay  *)
(* uninterpreted: a lookup yields the term (lut, index, t) that stands for *)
(* (1 - t) * lut[index] + t * lut[index + 1], and a gain is the product of *)
(* such terms.  Indices, fractions and bounds are computed.                *)
(***************************************************************************)
EXTENDS Integers, Sequences, FiniteSets, TLC

\* ------------------------------------------------------------------ f32

\* Significant bits of an f32 (lib.rs works in f32 throughout).
MantBits == 24

\* i32::MAX, what `as i32` saturates to.
I32_MAX == 2147483647

Abs(n) == IF n < 0 THEN -n ELSE n

Sign(n) == IF n < 0 THEN -1 ELSE 1

RECURSIVE BitLen(_)
\* Number of binary digits of n >= 0.
BitLen(n) == IF n = 0 THEN 0 ELSE 1 + BitLen(n \div 2)

Fin(m, e) == [k |-> "fin", m |-> m, e |-> IF m = 0 THEN 0 ELSE e]

Zero == Fin(0, 0)

NaN == [k |-> "nan", m |-> 0, e |-> 0]

Inf(s) == [k |-> "inf", m |-> s, e |-> 0]

\* The f32 nearest to s * mag * 2^e (ties to even), for 0 <= mag < 2^31.
RoundF32(s, mag, e) ==
    IF mag = 0 THEN Zero
    ELSE LET n == BitLen(mag) IN
         IF n <= MantBits
         THEN Fin(s * mag * 2^(MantBits - n), e - (MantBits - n))
         ELSE LET sh   == n - MantBits
                  q    == mag \div 2^sh
                  r    == mag % 2^sh
                  half == 2^(sh - 1)
                  q2   == IF r > half \/ (r = half /\ q % 2 = 1) THEN q + 1 ELSE q
              IN IF q2 = 2^MantBits
                 THEN Fin(s * 2^(MantBits - 1), e + sh + 1)
                 ELSE Fin(s * q2, e + sh)

\* An i32 as f32 (`as f32`).
IntToF32(n) ==
    IF n < -I32_MAX THEN Fin(-(2^(MantBits - 1)), 8) ELSE RoundF32(Sign(n), Abs(n), 0)

FNeg(a) == IF a.k = "nan" THEN a ELSE [a EXCEPT !.m = -a.m]

\* a + b.  The operand of smaller exponent is shifted under three extra
\* bits, the last of them sticky, and the exact sum of that is rounded.
FAdd(a, b) ==
    IF a.k = "nan" \/ b.k = "nan" THEN NaN
    ELSE IF a.k = "inf" THEN (IF b.k = "inf" /\ b.m # a.m THEN NaN ELSE a)
    ELSE IF b.k = "inf" THEN b
    ELSE IF a.m = 0 THEN b
    ELSE IF b.m = 0 THEN a
    ELSE LET hi == IF a.e >= b.e THEN a ELSE b
             lo == IF a.e >= b.e THEN b ELSE a
             d  == hi.e - lo.e
         IN IF d >= MantBits + 2 THEN hi
            ELSE LET him == Abs(hi.m) * 8
                     lo8 == Abs(lo.m) * 8
                     lof == lo8 \div 2^d
                     lom == IF lo8 % 2^d # 0 /\ lof % 2 = 0 THEN lof + 1 ELSE lof
                     sum == Sign(hi.m) * him + Sign(lo.m) * lom
                 IN RoundF32(Sign(sum), Abs(sum), hi.e - 3)

FSub(a, b) == FAdd(a, FNeg(b))

RECURSIVE LongDiv(_, _, _, _)
\* k more binary digits of the quotient q (remainder r) of a division by n.
LongDiv(q, r, n, k) ==
    IF k = 0 THEN <<q, r>>
    ELSE IF 2 * r >= n THEN LongDiv(2 * q + 1, 2 * r - n, n, k - 1)
         ELSE LongDiv(2 * q, 2 * r, n, k - 1)

\* a / (n as f32) for an integer 0 <= n < 2^24 (exact as f32).
FDivInt(a, n) ==
    IF a.k = "nan" THEN NaN
    ELSE IF n = 0
         THEN (IF a.k = "fin" /\ a.m = 0 THEN NaN ELSE Inf(Sign(a.m)))
    ELSE IF a.k = "inf" THEN a
    ELSE IF a.m = 0 THEN Zero
    ELSE LET q0 == Abs(a.m) \div n
             r0 == Abs(a.m) % n
             k  == (MantBits + 3) - BitLen(q0)
             qr == LongDiv(q0, r0, n, k)
             q  == IF qr[2] # 0 /\ qr[1] % 2 = 0 THEN qr[1] + 1 ELSE qr[1]
         IN RoundF32(Sign(a.m), q, a.e - k)

RECURSIVE OddPart(_)
OddPart(n) == IF n % 2 = 0 THEN OddPart(n \div 2) ELSE n

RECURSIVE TwoExp(_)
TwoExp(n) == IF n % 2 = 0 THEN 1 + TwoExp(n \div 2) ELSE 0

\* (n as f32) * a for an integer constant n > 0 whose odd part is below 2^7.
FMulInt(n, a) ==
    IF a.k # "fin" THEN a
    ELSE RoundF32(Sign(a.m), Abs(a.m) * OddPart(n), a.e + TwoExp(n))

\* a < b (false when either is NaN).
FLt(a, b) ==
    IF a.k = "nan" \/ b.k = "nan" THEN FALSE
    ELSE LET d == FSub(a, b) IN
         IF d.k = "nan" THEN FALSE ELSE d.m < 0

FLe(a, b) == a.k # "nan" /\ b.k # "nan" /\ ~FLt(b, a)

\* f32::max and f32::min: the other operand when one is NaN.
FMax(a, b) == IF a.k = "nan" THEN b ELSE IF b.k = "nan" THEN a
              ELSE IF FLt(a, b) THEN b ELSE a

FMin(a, b) == IF a.k = "nan" THEN b ELSE IF b.k = "nan" THEN a
              ELSE IF FLt(b, a) THEN b ELSE a

\* `as i32`: truncation toward zero, saturating, NaN to 0.
AsI32(a) ==
    IF a.k = "nan" THEN 0
    ELSE IF a.k = "inf" THEN (IF a.m > 0 THEN I32_MAX ELSE -I32_MAX - 1)
    ELSE IF a.e >= 0
         THEN (IF a.m = 0 THEN 0
               ELSE IF a.e > 7 THEN (IF a.m > 0 THEN I32_MAX ELSE -I32_MAX - 1)
               ELSE a.m * 2^a.e)
    ELSE IF -a.e >= MantBits THEN 0
    ELSE Sign(a.m) * (Abs(a.m) \div 2^(-a.e))

\* `as usize`: as `as i32`, negative values to 0.  usize::MAX is beyond the
\* model's integers; a value that saturates is held at I32_MAX, which every
\* use (a min with 1 or 2, a comparison with a table length) treats alike.
AsUsize(a) == IF AsI32(a) < 0 THEN 0 ELSE AsI32(a)

\* f32::round followed by `as i32`: the nearest integer, halves away from zero.
FRoundI32(a) ==
    IF a.k # "fin" \/ a.e >= 0 THEN AsI32(a)
    ELSE IF -a.e > MantBits THEN 0
    ELSE LET q == Abs(a.m) \div 2^(-a.e)
             r == Abs(a.m) % 2^(-a.e)
         IN Sign(a.m) * (IF 2 * r >= 2^(-a.e) THEN q + 1 ELSE q)

is_finite(a) == a.k = "fin"

One == IntToF32(1)

\* The f32 nearest to n / d, the value of a decimal literal such as 0.2.
Dec(n, d) == FDivInt(IntToF32(n), d)

Half == Dec(1, 2)

\* x.max(0.0).min(1.0)
Clamp01(x) == FMin(FMax(x, Zero), One)

InUnit(x) == FLe(Zero, x) /\ FLe(x, One)

\* ------------------------------------------------- curve tables, lookup

\* VOLUME_LUT: [f32; 10]; lut[9] = lut[8].
VOLUME_LUT_LEN == 10

\* PAN_LUT: [[[f32; 202]; 3]; 2]; law_lut[201] = law_lut[200].
PAN_LUT_LEN == 202

VOLUME_LUT == [lut |-> "volume", taper |-> 0, law |-> 0, len |-> VOLUME_LUT_LEN]

PAN_LUT(taper, law) == [lut |-> "pan", taper |-> taper, law |-> law, len |-> PAN_LUT_LEN]

\* The knot whose value lut[i] holds: the last entry repeats the one before.
Knot(lut, i) == IF i = lut.len - 1 THEN lut.len - 2 ELSE i

\* The term (1 - t) * lut[index] + t * lut[index + 1]; oob when lut[index]
\* or lut[index + 1] is outside the table (the access panics).
lookup_interpolated(lut, pos) ==
    LET t0    == FMulInt(lut.len - 2, pos)
        index == AsUsize(t0)
        t     == FSub(t0, IntToF32(index))
    IN [lut |-> lut.lut, taper |-> lut.taper, law |-> lut.law,
        index |-> index, t |-> t, oob |-> index + 1 > lut.len - 1]

NoTerm == [lut |-> "none", taper |-> 0, law |-> 0, index |-> 0, t |-> Zero, oob |-> FALSE]

\* A gain: volume_gain (pg = NoTerm) or volume_gain * a pan lookup.
Gain(vg, pg) == [vg |-> vg, pg |-> pg]

\* The table entries are finite, so a term is finite when its fraction is.
GainFinite(g) == is_finite(g.vg.t) /\ is_finite(g.pg.t)

\* F::zero()
ZeroSample == [gain |-> Gain(NoTerm, NoTerm), x |-> Zero]

\* gain * x in the sample type F: a finite gain times zero is zero.
SampleMul(gain, x) ==
    IF x = Zero /\ GainFinite(gain) THEN ZeroSample ELSE [gain |-> gain, x |-> x]

\* A sample passed on as it is, finite or not.
KeepNonFinite(value) == value

non_finite_to_zero(value) == IF is_finite(value) THEN value ELSE Zero

\* The table row process_internal selects from the stored selectors.
TaperIndex(pan_taper) == LET i == AsUsize(FMulInt(2, pan_taper)) IN IF i < 1 THEN i ELSE 1

LawIndex(pan_law) == LET i == AsUsize(FMulInt(3, pan_law)) IN IF i < 2 THEN i ELSE 2

\* ------------------------------------------------------ the parameters

\* FaderEffectParameters::default
DefaultStorage ==
    [volume |-> Dec(3, 4), pan |-> Half, pan_taper |-> Zero, pan_law |-> Half]

\* A law selector stored without the division by 2.
QuantizeLawUnhalved(value) == Clamp01(IntToF32(AsI32(FMulInt(3, value))))

\* What set_parameter stores for index 2 and 3.
QuantizeTaper(value) == Clamp01(IntToF32(AsI32(FMulInt(2, value))))

QuantizeLaw(value) == Clamp01(FDivInt(IntToF32(AsI32(FMulInt(3, value))), 2))

NoText == [s |-> "", n |-> 0, term |-> NoTerm]

\* get_parameter_text(0): the text of 20 * log10(gain), or "-inf dB" for a
\* gain below 1e-5, is a function of the looked-up term and is kept as it.
VolumeText(term) == [s |-> "dB", n |-> 0, term |-> term]

PanText(pan) ==
    LET n == FRoundI32(FMulInt(200, FSub(pan, Half)))
    IN [s |-> IF n < 0 THEN "L" ELSE IF n > 0 THEN "R" ELSE "C", n |-> Abs(n), term |-> NoTerm]

TaperText(pan_taper) ==
    [s |-> IF AsI32(FMulInt(2, pan_taper)) = 0 THEN "Sine" ELSE "Root", n |-> 0, term |-> NoTerm]

LawText(pan_law) ==
    LET index == AsI32(FMulInt(3, pan_law))
    IN [s |-> IF index = 0 THEN "3 dB" ELSE IF index = 1 THEN "4.5 dB" ELSE "6 dB",
        n |-> 0, term |-> NoTerm]

\* ------------------------------------------------------------ the state

VARIABLES
    storage,         \* FaderEffectParameterStorage behind the RwLock
    rw,              \* the RwLock: readers, writer, poisoned
    current_volume,  \* FaderEffect.current_volume
    current_pan,     \* FaderEffect.current_pan
    a_pc,            \* audio thread: "idle", "lock", "loop", "panicked"
    loc,             \* process_internal's locals
    buf,             \* the AudioBuffer of the call in progress
    entry,           \* current_volume and current_pan as the call found them
    c_pc,            \* control thread: "idle", "set_lock", "set_locked", "panicked"
    c_call,          \* the control thread's last call: op, index, value
    c_ret,           \* what get_parameter / get_parameter_text last returned
    panic            \* the panic message of each thread ("" for none)

vars == <<storage, rw, current_volume, current_pan, a_pc, loc, buf, entry,
          c_pc, c_call, c_ret, panic>>

\* The sentinel of FaderEffect::default.
Sentinel == IntToF32(-1)

NoLoc ==
    [target_volume |-> Zero, target_pan |-> Zero, pan_taper |-> 0, pan_law |-> 0,
     volume |-> Zero, pan |-> Zero, volume_delta |-> Zero, pan_delta |-> Zero,
     sample_idx |-> 0]

NoBuf == [num_samples |-> 0, num_inputs |-> 0, num_outputs |-> 0,
          inputs |-> <<>>, outputs |-> <<>>]

NoEntry == [volume |-> Zero, pan |-> Zero]

NoCall == [op |-> "", index |-> 0, value |-> Zero]

NoRet == [value |-> Zero, text |-> NoText]

Init ==
    /\ storage = DefaultStorage
    /\ rw = [readers |-> 0, writer |-> FALSE, poisoned |-> FALSE]
    /\ current_volume = Sentinel
    /\ current_pan = Sentinel
    /\ a_pc = "idle"
    /\ loc = NoLoc
    /\ buf = NoBuf
    /\ entry = NoEntry
    /\ c_pc = "idle"
    /\ c_call = NoCall
    /\ c_ret = NoRet
    /\ panic = [audio |-> "", control |-> ""]

\* ------------------------------------------------------------ the RwLock

\* A write lock that does not wait for the readers.
WriteLockIgnoringReaders == ~rw.writer

\* RwLock::write returns once no reader and no writer holds the lock.
WriteLockAvailable == rw.readers = 0 /\ ~rw.writer

\* RwLock::read returns once no writer holds the lock.
ReadLockAvailable == ~rw.writer

\* ------------------------------------------------------ the audio thread

\* An output sample the call has not written: n counts the writes.
Unwritten == [n |-> 0, gain |-> Gain(NoTerm, NoTerm), x |-> Zero]

\* The input buffers of a call: ni channels of n finite, distinct, nonzero
\* samples, and each of them with one sample replaced by a value of Kinds.
InputBuffers(ni, n, Kinds) ==
    LET base == [c \in 0 .. ni - 1 |-> [i \in 0 .. n - 1 |-> IntToF32(1 + c + ni * i)]]
    IN {base} \cup
       {[base EXCEPT ![c][i] = v] : c \in 0 .. ni - 1, i \in 0 .. n - 1, v \in Kinds}

\* The host calls process / process_f64 with a buffer.
ProcessCall(ni, no, n, in) ==
    /\ a_pc = "idle"
    /\ a_pc' = "lock"
    /\ buf' = [num_samples |-> n, num_inputs |-> ni, num_outputs |-> no,
               inputs |-> in,
               outputs |-> [c \in 0 .. no - 1 |-> [i \in 0 .. n - 1 |-> Unwritten]]]
    /\ UNCHANGED <<storage, rw, current_volume, current_pan, loc, entry,
                   c_pc, c_call, c_ret, panic>>

\* A ramp that starts from the stored value even when it is the sentinel.
RampStartNoSnap(current, target) == current

\* if self.current_x < 0.0 { target } else { self.current_x }
RampStart(current, target) == IF FLt(current, Zero) THEN target ELSE current

\* A delta that is the whole distance, not divided by the buffer length.
RampDeltaUndivided(target, start, num_samples) == FSub(target, start)

\* (target - start) / num_samples as f32
RampDelta(target, start, num_samples) == FDivInt(FSub(target, start), num_samples)

\* self.parameters.storage.read().unwrap() and the code up to the loop.
ProcessLock ==
    /\ a_pc = "lock"
    /\ ReadLockAvailable
    /\ IF rw.poisoned
       THEN /\ a_pc' = "panicked"
            /\ panic' = [panic EXCEPT !.audio = "PoisonError"]
            /\ UNCHANGED <<rw, current_volume, current_pan, loc, entry>>
       ELSE LET volume == RampStart(current_volume, storage.volume)
                pan    == RampStart(current_pan, storage.pan)
            IN /\ rw' = [rw EXCEPT !.readers = @ + 1]
               /\ loc' = [target_volume |-> storage.volume,
                          target_pan    |-> storage.pan,
                          pan_taper     |-> TaperIndex(storage.pan_taper),
                          pan_law       |-> LawIndex(storage.pan_law),
                          volume        |-> volume,
                          pan           |-> pan,
                          volume_delta  |-> RampDelta(storage.volume, volume, buf.num_samples),
                          pan_delta     |-> RampDelta(storage.pan, pan, buf.num_samples),
                          sample_idx    |-> 0]
               /\ entry' = [volume |-> current_volume, pan |-> current_pan]
               /\ current_volume' = storage.volume
               /\ current_pan' = storage.pan
               /\ a_pc' = "loop"
               /\ UNCHANGED panic
    /\ UNCHANGED <<storage, buf, c_pc, c_call, c_ret>>

\* outputs.get_mut(c)[i] = value
WriteSample(outputs, c, i, value) ==
    [outputs EXCEPT ![c][i] = [n |-> @.n + 1, gain |-> value.gain, x |-> value.x]]

RECURSIVE PairLoop(_, _, _, _, _, _, _)
\* for channel_pair in channel_pair..channel_pairs
PairLoop(outputs, inputs, i, channel_pair, channel_pairs, gain_left, gain_right) ==
    IF channel_pair >= channel_pairs THEN outputs
    ELSE LET left_index  == 2 * channel_pair
             right_index == left_index + 1
             input_left  == non_finite_to_zero(inputs[left_index][i])
             input_right == non_finite_to_zero(inputs[right_index][i])
             o1 == WriteSample(outputs, left_index, i, SampleMul(gain_left, input_left))
             o2 == WriteSample(o1, right_index, i, SampleMul(gain_right, input_right))
         IN PairLoop(o2, inputs, i, channel_pair + 1, channel_pairs, gain_left, gain_right)

\* An unpaired last channel that is never written.
OddChannelSkipped(outputs, inputs, i, channel_pairs, num_channels, volume_gain) == outputs

\* if 2 * channel_pairs != num_channels
OddChannel(outputs, inputs, i, channel_pairs, num_channels, volume_gain) ==
    IF 2 * channel_pairs # num_channels
    THEN WriteSample(outputs, num_channels - 1, i,
                     SampleMul(volume_gain, non_finite_to_zero(inputs[num_channels - 1][i])))
    ELSE outputs

RECURSIVE SilenceLoop(_, _, _, _)
\* for index in index..num_outputs
SilenceLoop(outputs, i, index, num_outputs) ==
    IF index >= num_outputs THEN outputs
    ELSE SilenceLoop(WriteSample(outputs, index, i, ZeroSample), i, index + 1, num_outputs)

Min(a, b) == IF a < b THEN a ELSE b

\* One iteration of `for sample_idx in 0..num_samples`.
ProcessSample ==
    /\ a_pc = "loop"
    /\ loc.sample_idx < buf.num_samples
    /\ LET volume == Clamp01(FAdd(loc.volume, loc.volume_delta))
           pan    == Clamp01(FAdd(loc.pan, loc.pan_delta))
           pan_law == PAN_LUT(loc.pan_taper, loc.pan_law)
           vg == lookup_interpolated(VOLUME_LUT, volume)
           pl == lookup_interpolated(pan_law, pan)
           pr == lookup_interpolated(pan_law, FSub(One, pan))
           num_channels  == Min(buf.num_inputs, buf.num_outputs)
           channel_pairs == num_channels \div 2
           o1 == PairLoop(buf.outputs, buf.inputs, loc.sample_idx, 0, channel_pairs,
                          Gain(vg, pl), Gain(vg, pr))
           o2 == OddChannel(o1, buf.inputs, loc.sample_idx, channel_pairs, num_channels,
                            Gain(vg, NoTerm))
           o3 == SilenceLoop(o2, loc.sample_idx, num_channels, buf.num_outputs)
       IN IF vg.oob \/ pl.oob \/ pr.oob
          THEN /\ a_pc' = "panicked"
               /\ panic' = [panic EXCEPT !.audio = "index out of bounds"]
               /\ rw' = [rw EXCEPT !.readers = @ - 1]
               /\ UNCHANGED <<loc, buf>>
          ELSE /\ loc' = [loc EXCEPT !.volume = volume, !.pan = pan,
                                     !.sample_idx = @ + 1]
               /\ buf' = [buf EXCEPT !.outputs = o3]
               /\ UNCHANGED <<a_pc, rw, panic>>
    /\ UNCHANGED <<storage, current_volume, current_pan, entry, c_pc, c_call, c_ret>>

\* The loop is over: the read guard is dropped and the call returns.
ProcessReturn ==
    /\ a_pc = "loop"
    /\ loc.sample_idx >= buf.num_samples
    /\ rw' = [rw EXCEPT !.readers = @ - 1]
    /\ a_pc' = "idle"
    /\ loc' = NoLoc
    /\ buf' = NoBuf
    /\ entry' = NoEntry
    /\ UNCHANGED <<storage, current_volume, current_pan, c_pc, c_call, c_ret, panic>>

\* ---------------------------------------------------- the control thread

\* The host calls set_parameter(index, value).
SetParameterCall(index, value) ==
    /\ c_pc = "idle"
    /\ c_pc' = "set_lock"
    /\ c_call' = [op |-> "set", index |-> index, value |-> value]
    /\ UNCHANGED <<storage, rw, current_volume, current_pan, a_pc, loc, buf, entry,
                   c_ret, panic>>

\* self.storage.write().unwrap()
SetParameterLock ==
    /\ c_pc = "set_lock"
    /\ WriteLockAvailable
    /\ IF rw.poisoned
       THEN /\ c_pc' = "panicked"
            /\ panic' = [panic EXCEPT !.control = "PoisonError"]
            /\ UNCHANGED rw
       ELSE /\ c_pc' = "set_locked"
            /\ rw' = [rw EXCEPT !.writer = TRUE]
            /\ UNCHANGED panic
    /\ UNCHANGED <<storage, current_volume, current_pan, a_pc, loc, buf, entry,
                   c_call, c_ret>>

\* The match of set_parameter: the field after the store.
StoredValue(index, value) ==
    CASE index = 0 -> value
      [] index = 1 -> value
      [] index = 2 -> QuantizeTaper(value)
      [] index = 3 -> QuantizeLaw(value)

Field(index) ==
    CASE index = 0 -> "volume"
      [] index = 1 -> "pan"
      [] index = 2 -> "pan_taper"
      [] index = 3 -> "pan_law"

\* drop(storage) before panic!(..): the write guard is released by a thread
\* that is not panicking yet, so the lock is not poisoned.
PoisonedByPanic == FALSE

\* The match of set_parameter under the write guard, and the guard's drop.
SetParameterStore ==
    /\ c_pc = "set_locked"
    /\ IF c_call.index \in 0 .. 3
       THEN /\ storage' = [storage EXCEPT ![Field(c_call.index)] =
                                          StoredValue(c_call.index, c_call.value)]
            /\ rw' = [rw EXCEPT !.writer = FALSE]
            /\ c_pc' = "idle"
            /\ UNCHANGED panic
       ELSE /\ rw' = [rw EXCEPT !.writer = FALSE, !.poisoned = PoisonedByPanic]
            /\ c_pc' = "panicked"
            /\ panic' = [panic EXCEPT !.control = "invalid parameter index!"]
            /\ UNCHANGED storage
    /\ c_call' = NoCall
    /\ UNCHANGED <<current_volume, current_pan, a_pc, loc, buf, entry, c_ret>>

\* get_parameter(index): a read guard for the length of the match.
GetParameter(index) ==
    /\ c_pc = "idle"
    /\ ReadLockAvailable
    /\ IF rw.poisoned
       THEN /\ c_pc' = "panicked"
            /\ panic' = [panic EXCEPT !.control = "PoisonError"]
            /\ UNCHANGED c_ret
       ELSE IF index \in 0 .. 3
       THEN /\ c_ret' = [value |-> storage[Field(index)], text |-> NoText]
            /\ UNCHANGED <<c_pc, panic>>
       ELSE /\ c_pc' = "panicked"
            /\ panic' = [panic EXCEPT !.control = "invalid parameter index!"]
            /\ UNCHANGED c_ret
    /\ UNCHANGED <<storage, rw, current_volume, current_pan, a_pc, loc, buf, entry, c_call>>

\* The position get_parameter_text(0) hands to lookup_interpolated.
TextVolumePosition(volume) == volume

\* get_parameter_text(index): each arm reads its field under a read guard
\* dropped at the end of the statement, then formats.
GetParameterText(index) ==
    /\ c_pc = "idle"
    /\ ReadLockAvailable
    /\ IF rw.poisoned /\ index \in 0 .. 3
       THEN /\ c_pc' = "panicked"
            /\ panic' = [panic EXCEPT !.control = "PoisonError"]
            /\ UNCHANGED c_ret
       ELSE IF index = 0
       THEN LET gain == lookup_interpolated(VOLUME_LUT, TextVolumePosition(storage.volume))
            IN IF gain.oob
               THEN /\ c_pc' = "panicked"
                    /\ panic' = [panic EXCEPT !.control = "index out of bounds"]
                    /\ UNCHANGED c_ret
               ELSE /\ c_ret' = [value |-> Zero, text |-> VolumeText(gain)]
                    /\ UNCHANGED <<c_pc, panic>>
       ELSE IF index \in 1 .. 3
       THEN /\ c_ret' = [value |-> Zero,
                         text |-> CASE index = 1 -> PanText(storage.pan)
                                    [] index = 2 -> TaperText(storage.pan_taper)
                                    [] index = 3 -> LawText(storage.pan_law)]
            /\ UNCHANGED <<c_pc, panic>>
       ELSE /\ c_pc' = "panicked"
            /\ panic' = [panic EXCEPT !.control = "invalid parameter index!"]
            /\ UNCHANGED c_ret
    /\ UNCHANGED <<storage, rw, current_volume, current_pan, a_pc, loc, buf, entry, c_call>>

\* --------------------------------------------------------- specifications

\* Longest buffer, in samples, and most input and output channels of a buffer.
MaxSamples == 2

MaxInputs == 3

MaxOutputs == 4

\* Every step of either thread, the calls' arguments drawn from the given sets.
Step(Values, SetIdx, GetIdx, Samples, Inputs, Outputs, Kinds) ==
    \/ \E ni \in Inputs, no \in Outputs, n \in Samples :
          \E in \in InputBuffers(ni, n, Kinds) : ProcessCall(ni, no, n, in)
    \/ ProcessLock
    \/ ProcessSample
    \/ ProcessReturn
    \/ \E index \in SetIdx, value \in Values : SetParameterCall(index, value)
    \/ SetParameterLock
    \/ SetParameterStore
    \/ \E index \in GetIdx : GetParameter(index)
    \/ \E index \in GetIdx : GetParameterText(index)

\* The plugin as a host drives it: the declared 2 inputs and 2 outputs,
\* set_parameter on the volume and the taper with a value inside and one
\* outside [0, 1], and on an invalid index.
Next ==
    Step({Dec(1, 5), Dec(3, 2)}, {0, 2, 4}, {0, 4}, 0 .. MaxSamples, {2}, {2}, {})

Spec == Init /\ [][Next]_vars

\* Ramps inside [0, 1]: set_parameter on volume and pan only.
NextRamp ==
    Step({Dec(1, 5), Dec(4, 5), One}, {0, 1}, {0}, 0 .. MaxSamples, {2}, {2}, {})

SpecRamp == Init /\ [][NextRamp]_vars

\* The f32 next below a positive f32.
FPrev(a) ==
    IF a.m > 2^(MantBits - 1) THEN Fin(a.m - 1, a.e) ELSE Fin(2^MantBits - 1, a.e - 1)

\* Values of [0, 1] at and next to the bin edges 1/3, 1/2 and 2/3.
QuantValues ==
    {Zero, Dec(1, 5), FPrev(Dec(1, 3)), Dec(1, 3), FPrev(Half), Half,
     FPrev(Dec(2, 3)), Dec(2, 3), One}

\* The selectors: set_parameter, get_parameter and get_parameter_text on the
\* taper and the law.
NextQuant ==
    Step(QuantValues, {2, 3}, {2, 3}, 0 .. MaxSamples, {2}, {2}, {})

SpecQuant == Init /\ [][NextQuant]_vars

\* Routing: every channel layout, a non-finite sample anywhere in the input,
\* the pan moved off centre.
NextRoute ==
    Step({Dec(1, 5)}, {1}, {1}, 0 .. MaxSamples, 0 .. MaxInputs, 0 .. MaxOutputs,
         {NaN, Inf(1), Inf(-1)})

SpecRoute == Init /\ [][NextRoute]_vars

\* ------------------------------------------------------------ the claims

\* A call with at least one sample is in its loop.
InLoop == a_pc = "loop" /\ buf.num_samples > 0

\* floor(x * 2^27) for a finite x >= 0: x in units of 2^-27.
Fix(x) ==
    IF x.m = 0 THEN 0
    ELSE IF x.e >= -27 THEN x.m * 2^(x.e + 27)
    ELSE IF -27 - x.e >= MantBits THEN 0
    ELSE x.m \div 2^(-27 - x.e)

\* n * x = r * 2^-27 exactly, for a finite x >= 0 and integers n > 0, r.
ScaledEq(n, x, r) ==
    IF x.m = 0 THEN r = 0
    ELSE IF x.e >= -27 THEN n * x.m * 2^(x.e + 27) = r
    ELSE IF -27 - x.e > MantBits + 2 THEN FALSE
    ELSE (n * x.m) % 2^(-27 - x.e) = 0 /\ (n * x.m) \div 2^(-27 - x.e) = r

\* n times the ideal ramp value s + j * (g - s) / n, in units of 2^-27.
IdealN(s, g, j, n) == n * Fix(s) + j * (Fix(g) - Fix(s))

\* (n + 5) * 2^-24 in units of 2^-27.
RampTol(n) == (n + 5) * 2^3

\* |v - (s + j * (g - s) / n)| <= (n + 5) * 2^-24
NearIdeal(v, s, g, j, n) ==
    /\ n * Fix(v) >= IdealN(s, g, j, n) - n * RampTol(n)
    /\ n * (Fix(v) + 1) <= IdealN(s, g, j, n) + n * RampTol(n)

\* |(w - v) - (g - s) / n| <= 2^-23
NearStep(v, w, s, g, n) ==
    /\ n * (Fix(w) - Fix(v) + 1) <= (Fix(g) - Fix(s)) + n * 2^4
    /\ n * (Fix(w) - Fix(v) - 1) >= (Fix(g) - Fix(s)) - n * 2^4

\* v moves to w in the direction from s to g, or stays.
Toward(v, w, s, g) ==
    /\ FLe(s, g) => FLe(v, w)
    /\ FLe(g, s) => FLe(w, v)

\* The step processes one sample.
Sampled == InLoop /\ a_pc' = "loop" /\ loc'.sample_idx = loc.sample_idx + 1

C1_RampState ==
    InLoop =>
        /\ current_volume = loc.target_volume
        /\ current_pan = loc.target_pan
        /\ (InUnit(entry.volume) /\ InUnit(loc.target_volume) /\ loc.sample_idx >= 1)
              => NearIdeal(loc.volume, entry.volume, loc.target_volume,
                           loc.sample_idx, buf.num_samples)
        /\ (InUnit(entry.pan) /\ InUnit(loc.target_pan) /\ loc.sample_idx >= 1)
              => NearIdeal(loc.pan, entry.pan, loc.target_pan,
                           loc.sample_idx, buf.num_samples)

C1_RampStep ==
    /\ (Sampled /\ InUnit(entry.volume) /\ InUnit(loc.target_volume))
          => /\ Toward(loc.volume, loc'.volume, entry.volume, loc.target_volume)
             /\ NearStep(loc.volume, loc'.volume, entry.volume, loc.target_volume,
                         buf.num_samples)
    /\ (Sampled /\ InUnit(entry.pan) /\ InUnit(loc.target_pan))
          => /\ Toward(loc.pan, loc'.pan, entry.pan, loc.target_pan)
             /\ NearStep(loc.pan, loc'.pan, entry.pan, loc.target_pan, buf.num_samples)
    /\ (InLoop /\ a_pc' = "idle")
          => current_volume' = loc.target_volume /\ current_pan' = loc.target_pan

ExactRamp(v, s, g, j, n) ==
    /\ ScaledEq(n, v, IdealN(s, g, j, n))
    /\ j = n => v = g

Fresh == entry.volume = Sentinel /\ entry.pan = Sentinel

\* C2: on the first call of a fresh processor, with targets in [0, 1] and
\* N > 0, both ramp deltas are 0 and every sample is processed with the
\* target volume and the target pan.
C2_FirstCallSnap ==
    (InLoop /\ Fresh /\ InUnit(loc.target_volume) /\ InUnit(loc.target_pan)) =>
        /\ loc.volume_delta = Zero
        /\ loc.pan_delta = Zero
        /\ loc.volume = loc.target_volume
        /\ loc.pan = loc.target_pan

\* A first call, with targets set away from the defaults, has processed its
\* last sample, of at least two.
C2_Witness ==
    /\ InLoop
    /\ Fresh
    /\ buf.num_samples >= 2
    /\ loc.sample_idx = buf.num_samples
    /\ loc.target_volume = Dec(1, 5)
    /\ loc.target_pan = Dec(4, 5)

\* C6: a call with numSamples == 0 divides nothing by zero, processes no
\* sample, and leaves current_volume and current_pan as the call found them.
C6_ZeroLengthNoOp ==
    (a_pc = "loop" /\ buf.num_samples = 0) =>
        /\ is_finite(loc.volume_delta)
        /\ is_finite(loc.pan_delta)
        /\ loc.sample_idx = 0
        /\ current_volume = entry.volume
        /\ current_pan = entry.pan

\* C3: current_volume and current_pan each equal the sentinel -1 or lie in
\* [0, 1], whatever values the host passes to set_parameter.
C3_StateInUnitOrSentinel ==
    /\ current_volume = Sentinel \/ InUnit(current_volume)
    /\ current_pan = Sentinel \/ InUnit(current_pan)

\* C4: the audio thread never waits for the control thread inside a process
\* call, and a panic of the control thread never makes its parameter read fail.
C4_AudioNeverWaits ==
    /\ ~(a_pc = "lock" /\ ~ReadLockAvailable)
    /\ ~rw.poisoned
    /\ panic.audio # "PoisonError"

\* The lookup at position 1.0 is in bounds and yields the last table entry.
LastEntryAtOne(lut) ==
    LET r == lookup_interpolated(lut, One)
    IN ~r.oob /\ r.t = Zero /\ Knot(lut, r.index) = Knot(lut, lut.len - 1)

\* A looked-up term whose position was in [0, 1]: index + 1 <= len - 1 and a
\* fraction in [0, 1).
InTable(term, lut) ==
    term.lut = lut.lut =>
        term.index + 1 <= lut.len - 1 /\ FLe(Zero, term.t) /\ FLt(term.t, One)

\* C5: every table access of lookup_interpolated is in bounds after any
\* sequence of set_parameter, get_parameter_text and process calls: every call
\* site passes a position in [0, 1], and position 1.0 yields the last entry.
C5_LookupInBounds ==
    /\ panic.audio # "index out of bounds"
    /\ panic.control # "index out of bounds"
    /\ InTable(c_ret.text.term, VOLUME_LUT)
    /\ \A c \in DOMAIN buf.outputs : \A i \in DOMAIN buf.outputs[c] :
          /\ InTable(buf.outputs[c][i].gain.vg, VOLUME_LUT)
          /\ InTable(buf.outputs[c][i].gain.pg, PAN_LUT(0, 0))
    /\ LastEntryAtOne(VOLUME_LUT)
    /\ \A taper \in 0 .. 1, law \in 0 .. 2 : LastEntryAtOne(PAN_LUT(taper, law))

\* A step of the audio thread.
AudioStep == a_pc' # a_pc \/ loc' # loc \/ buf' # buf

C9_SnapshotState ==
    a_pc = "loop" =>
        /\ loc.target_volume = storage.volume
        /\ loc.target_pan = storage.pan
        /\ loc.pan_taper = TaperIndex(storage.pan_taper)
        /\ loc.pan_law = LawIndex(storage.pan_law)
        /\ c_pc # "set_locked"
        /\ \A c \in DOMAIN buf.outputs : \A i \in DOMAIN buf.outputs[c] :
              buf.outputs[c][i].gain.pg.lut = "pan" =>
                  /\ buf.outputs[c][i].gain.pg.taper = loc.pan_taper
                  /\ buf.outputs[c][i].gain.pg.law = loc.pan_law

C9_SnapshotStep ==
    /\ AudioStep => storage' = storage
    /\ (a_pc = "loop" /\ a_pc' = "loop") =>
          /\ loc'.target_volume = loc.target_volume
          /\ loc'.target_pan = loc.target_pan
          /\ loc'.pan_taper = loc.pan_taper
          /\ loc'.pan_law = loc.pan_law
          /\ loc'.volume_delta = loc.volume_delta
          /\ loc'.pan_delta = loc.pan_delta
          /\ storage' = storage

\* C9: the targets and the pan curve of a call are the values read at its
\* start: while the call is in its loop they do not change and are what the
\* storage holds, every gain written uses the curve selected at the start, a
\* set_parameter issued meanwhile is not stored before the call returns, and
\* no step of the audio thread writes the parameter storage.
C9_ReadOncePerCall == []C9_SnapshotState /\ [][C9_SnapshotStep]_vars

\* A set_parameter with a new volume is pending while a call has processed a
\* sample and has another to go.
C9_Witness ==
    /\ InLoop
    /\ loc.sample_idx >= 1
    /\ loc.sample_idx < buf.num_samples
    /\ c_pc = "set_lock"
    /\ c_call.index = 0
    /\ c_call.value # loc.target_volume

\* The output sample of channel c at sample index i.
Cell(c, i) == buf.outputs[c][i]

Written(c, i, gain, x) == Cell(c, i) = [n |-> 1, gain |-> gain, x |-> x]

\* C7: once a sample index is processed, every channel c < numChannels whose
\* input sample there is NaN or an infinity has had 0 written to its output,
\* paired or unpaired.
C7_NonFiniteToZero ==
    a_pc = "loop" =>
        \A c \in 0 .. Min(buf.num_inputs, buf.num_outputs) - 1 :
            \A i \in 0 .. loc.sample_idx - 1 :
                ~is_finite(buf.inputs[c][i]) => Written(c, i, ZeroSample.gain, Zero)

\* A call on three channels has processed all its samples, one of them an
\* infinite sample of the unpaired last channel.
C7_Witness ==
    /\ a_pc = "loop"
    /\ buf.num_inputs = 3
    /\ buf.num_outputs >= 3
    /\ buf.num_samples >= 2
    /\ loc.sample_idx = buf.num_samples
    /\ \E i \in 0 .. loc.sample_idx - 1 : buf.inputs[2][i] = Inf(-1)

\* What the claim gives output channel c at the sample just processed, from
\* the volume and pan applied to it.
RoutedLast(c) ==
    LET i   == loc.sample_idx - 1
        nc  == Min(buf.num_inputs, buf.num_outputs)
        lut == PAN_LUT(loc.pan_taper, loc.pan_law)
        volumeGain == lookup_interpolated(VOLUME_LUT, loc.volume)
        gainLeft   == Gain(volumeGain, lookup_interpolated(lut, loc.pan))
        gainRight  == Gain(volumeGain, lookup_interpolated(lut, FSub(One, loc.pan)))
    IN IF c < 2 * (nc \div 2)
       THEN is_finite(buf.inputs[c][i]) =>
               Written(c, i, IF c % 2 = 0 THEN gainLeft ELSE gainRight, buf.inputs[c][i])
       ELSE IF c < nc
       THEN is_finite(buf.inputs[c][i]) =>
               Written(c, i, Gain(volumeGain, NoTerm), buf.inputs[c][i])
       ELSE Written(c, i, ZeroSample.gain, Zero)

C8_RoutingState ==
    a_pc = "loop" =>
        /\ loc.sample_idx >= 1 => \A c \in 0 .. buf.num_outputs - 1 : RoutedLast(c)
        /\ \A c \in 0 .. buf.num_outputs - 1 :
              /\ \A i \in 0 .. loc.sample_idx - 1 : Cell(c, i).n = 1
              /\ \A i \in loc.sample_idx .. buf.num_samples - 1 : Cell(c, i) = Unwritten

C8_RoutingStep ==
    Sampled =>
        \A c \in 0 .. buf.num_outputs - 1 : \A i \in 0 .. buf.num_samples - 1 :
            i # loc.sample_idx => buf'.outputs[c][i] = buf.outputs[c][i]

\* C8: for every channel layout, each processed sample index has every output
\* channel written exactly once: gainLeft * in[c] on the even and
\* gainRight * in[c] on the odd channel of a pair, volumeGain * in[c] on an
\* unpaired last channel, 0 on the outputs from numChannels on; samples not
\* yet processed are unwritten and a processed one is not written again.
\* (in[c] finite; C7 covers the others.)
C8_ChannelRouting == []C8_RoutingState /\ [][C8_RoutingStep]_vars

\* Three inputs and four outputs, pan off centre: a pair, an unpaired channel
\* and a silent output, all samples processed.
C8_Witness ==
    /\ a_pc = "loop"
    /\ buf.num_inputs = 3
    /\ buf.num_outputs = 4
    /\ buf.num_samples >= 2
    /\ loc.sample_idx = buf.num_samples
    /\ loc.pan = Dec(1, 5)
    /\ Cell(0, 1).gain.pg # Cell(1, 1).gain.pg

\* v < n / d exactly, for a finite v in [0, 1] and 1/64 <= n / d.
ExactLt(v, n, d) ==
    IF v.m = 0 THEN TRUE
    ELSE IF -v.e > 29 THEN TRUE
    ELSE d * v.m < n * 2^(-v.e)

\* The bins of the claim: [0, 1/2), [1/2, 1] and floor(3 v) capped at 2.
ExpectedTaper(v) == IF ExactLt(v, 1, 2) THEN 0 ELSE 1

ExpectedLaw(v) == IF ExactLt(v, 1, 3) THEN 0 ELSE IF ExactLt(v, 2, 3) THEN 1 ELSE 2

\* The names of PAN_TAPERS = [sinusoidal_pan, root_pan] and PAN_LAWS = [3, 4.5, 6].
TaperName(taper) == IF taper = 0 THEN "Sine" ELSE "Root"

LawName(law) == IF law = 0 THEN "3 dB" ELSE IF law = 1 THEN "4.5 dB" ELSE "6 dB"

\* set_parameter(index, ..) stores and returns.
SetDone(index) == c_pc = "set_locked" /\ c_pc' = "idle" /\ c_call.index = index

C10_QuantState ==
    /\ storage.pan_taper \in {Zero, One}
    /\ storage.pan_law \in {Zero, Half, One}
    /\ a_pc = "loop" =>
          /\ loc.pan_taper = TaperIndex(storage.pan_taper)
          /\ loc.pan_law = LawIndex(storage.pan_law)
          /\ \A c \in DOMAIN buf.outputs : \A i \in DOMAIN buf.outputs[c] :
                Cell(c, i).gain.pg.lut = "pan" =>
                    /\ Cell(c, i).gain.pg.taper = TaperIndex(storage.pan_taper)
                    /\ Cell(c, i).gain.pg.law = LawIndex(storage.pan_law)
    /\ TaperText(storage.pan_taper).s = TaperName(TaperIndex(storage.pan_taper))
    /\ LawText(storage.pan_law).s = LawName(LawIndex(storage.pan_law))

\* get_parameter_text(2) or (3) returns a text.
TextFetched == c_ret' # c_ret /\ c_ret'.text.s \in {"Sine", "Root", "3 dB", "4.5 dB", "6 dB"}

C10_QuantStep ==
    /\ TextFetched =>
          c_ret'.text.s \in {TaperName(TaperIndex(storage.pan_taper)),
                             LawName(LawIndex(storage.pan_law))}
    /\ (SetDone(2) /\ InUnit(c_call.value)) =>
          /\ TaperIndex(storage'.pan_taper) = ExpectedTaper(c_call.value)
          /\ TaperText(storage'.pan_taper).s = TaperName(ExpectedTaper(c_call.value))
    /\ (SetDone(3) /\ InUnit(c_call.value)) =>
          /\ LawIndex(storage'.pan_law) = ExpectedLaw(c_call.value)
          /\ LawText(storage'.pan_law).s = LawName(ExpectedLaw(c_call.value))
    /\ (SetDone(2) /\ c_call.value = storage.pan_taper) => storage' = storage
    /\ (SetDone(3) /\ c_call.value = storage.pan_law) => storage' = storage

\* C10: after set_parameter(2, v), v in [0, 1], process selects taper 0 for
\* v < 0.5 and taper 1 otherwise; after set_parameter(3, v) it selects law
\* floor(3 v) capped at 2; the stored selectors are in {0, 1} and {0, 0.5, 1};
\* get_parameter_text names the taper and law process selects; and
\* set_parameter(k, get_parameter(k)) leaves the stored value unchanged.
C10_SelectorQuantization == []C10_QuantState /\ [][C10_QuantStep]_vars

\* Root taper and 6 dB law were set and a call uses them.
C10_Witness ==
    /\ InLoop
    /\ loc.sample_idx >= 1
    /\ storage.pan_taper = One
    /\ storage.pan_law = One
    /\ loc.pan_taper = 1
    /\ loc.pan_law = 2
    /\ c_ret.text.s = "6 dB"

====
